---- MODULE Spec2Model ----
(***************************************************************************)
(* Model of angr's emulated filesystem: SimDirectory (lookup, insert,      *)
(* remove, copy) of angr/state_plugins/filesystem.py and the plugin base   *)
(* class SimStatePlugin (memo, set_state) of angr/state_plugins/plugin.py. *)
(*                                                                         *)
(* Objects live in a heap indexed by identity 1..MaxObjs.  Strings are     *)
(* sequences of one-character strings, so that startswith, slicing and     *)
(* rindex are computed as the Python code computes them.                   *)
(***************************************************************************)
EXTENDS Integers, Sequences, FiniteSets, TLC

\* ------------------------------------------------------------------ bounds
MaxDirs == 2            \* SimDirectory objects the heap can hold
MaxFiles == 1           \* SimFile objects the heap can hold
MaxBranchFiles == 2     \* SimFile objects the trees of branches can hold
MaxEntries == 2         \* names (beyond '.' and '..') all directories hold
RecursionLimit == 3     \* nesting depth at which the interpreter gives up

DirIds == 1..MaxDirs
FileIds == (MaxDirs + 1)..(MaxDirs + MaxFiles)
BranchFileIds == (MaxDirs + 1)..(MaxDirs + MaxBranchFiles)
Objs == DirIds \cup FileIds \cup BranchFileIds
NoObj == 0              \* Python None where an object reference is expected

\* ----------------------------------------------------------------- strings
SEP == "/"
DOT == <<".">>
DOTDOT == <<".", ".">>
NameA == <<"a">>
NameB == <<"b">>

\* every key a directory of the model can hold
AllNames == {DOT, DOTDOT, NameA, NameB}

\* the orders in which a dict may hand out its keys (iteritems): one order
\* and its reverse, so that every two keys are met in both relative orders
Orders == { <<DOT, DOTDOT, NameA, NameB>>, <<NameB, NameA, DOTDOT, DOT>> }

\* paths given to lookup
LookupPaths ==
  { <<>>, NameA, DOTDOT, <<"a", "b">>, <<"/">>, <<"/", "a">>,
    <<"a", "/", "b">>, <<"/", "a", "/", "b">>, <<".", "/", "a">>,
    <<"b", "/", "a">> }

\* paths given to insert and remove
UpdatePaths ==
  { NameA, NameB, DOTDOT, <<"a", "/">>, <<"/", "b">>, <<"a", "/", "b">> }

\* owners a plugin can be attached to (0 is None)
States == {1}

\* ------------------------------------------------------------------- state
VARIABLES
  kind,       \* kind[o]: "free", "dir" (SimDirectory) or "file" (SimFile)
  files,      \* files[o]: the dict self.files of a directory
  parent,     \* parent[o]: self.parent of a directory
  writable,   \* writable[o]: self.writable
  pathsep,    \* pathsep[o]: self.pathsep of a directory
  state,      \* state[o]: self.state (0 is None)
  last,       \* the last call made and what it returned or raised
  before,     \* self.files of every directory as the last insert found it
  calls,      \* the merge / widen calls made on entries by the last call
  default_plugins   \* the module-level dict default_plugins

vars == <<kind, files, parent, writable, pathsep, state, last, before, calls,
          default_plugins>>

\* ----------------------------------------------------------------- results
RetObj(o) == [kind |-> "obj", val |-> o]
RetNone == [kind |-> "None", val |-> 0]
RetFalse == [kind |-> "False", val |-> 0]
RetTrue == [kind |-> "True", val |-> 0]
Raise(exc) == [kind |-> exc, val |-> 0]
\* the call never returns
Hang == [kind |-> "hang", val |-> 0]

Call(op, self, path, entry, writing, ret) ==
  [op |-> op, self |-> self, path |-> path, entry |-> entry,
   writing |-> writing, ret |-> ret]

Dirs == {o \in Objs : kind[o] = "dir"}
Files == {o \in Objs : kind[o] = "file"}
Live == Dirs \cup Files
Free == {o \in Objs : kind[o] = "free"}

Min(S) == CHOOSE x \in S : \A y \in S : x <= y

\* the names a directory holds beyond the two reserved ones
UserNames(d) == DOMAIN files[d] \ {DOT, DOTDOT}

RECURSIVE CountEntries(_)
CountEntries(S) ==
  IF S = {} THEN 0
  ELSE LET d == Min(S) IN Cardinality(UserNames(d)) + CountEntries(S \ {d})

Idle == last.op = "idle"

\* ---------------------------------------------------------- string helpers
startswith(path, fname) ==
  /\ Len(fname) <= Len(path)
  /\ SubSeq(path, 1, Len(fname)) = fname

\* path[n:] with Python's 0-based n
From(path, n) == SubSeq(path, n + 1, Len(path))

HasSep(path, sep) == \E i \in 1..Len(path) : path[i] = sep

\* path.rindex(sep) + 1
LastSep(path, sep) ==
  CHOOSE i \in 1..Len(path) :
    /\ path[i] = sep
    /\ \A j \in (i + 1)..Len(path) : path[j] # sep

RECURSIVE lstrip(_, _)
lstrip(path, sep) ==
  IF Len(path) > 0 /\ path[1] = sep THEN lstrip(Tail(path), sep) ELSE path

RECURSIVE rstrip(_, _)
rstrip(path, sep) ==
  IF Len(path) > 1 /\ path[Len(path)] = sep
  THEN rstrip(SubSeq(path, 1, Len(path) - 1), sep)
  ELSE path

\* the keys of d's dict in the order ord hands them out
Items(d, ord) == SelectSeq(ord, LAMBDA n : n \in DOMAIN files[d])

\* ------------------------------------------------------------------ lookup
\* scan with the test on what follows the matched prefix left out
RECURSIVE scan_prefix(_, _, _, _, _)
scan_prefix(d, path, writing, items, i) ==
  IF i > Len(items) THEN RetNone
  ELSE
    LET fname == items[i]
        simfile == files[d][fname]
    IN IF startswith(path, fname)
       THEN IF writing /\ ~writable[simfile] THEN RetFalse
            ELSE RetObj(simfile)
       ELSE scan_prefix(d, path, writing, items, i + 1)

RECURSIVE scan(_, _, _, _, _)
scan(d, path, writing, items, i) ==
  IF i > Len(items) THEN RetNone
  ELSE
    LET fname == items[i]
        simfile == files[d][fname]
    IN IF startswith(path, fname)
       THEN IF Len(path) = Len(fname)
            THEN IF writing /\ ~writable[simfile] THEN RetFalse
                 ELSE RetObj(simfile)
            ELSE IF path[Len(fname) + 1] = pathsep[d]
            THEN IF kind[simfile] = "dir"
                 \* simfile._lookup(rest) is called without `writing`
                 THEN Raise("TypeError")
                 ELSE RetNone
            ELSE scan(d, path, writing, items, i + 1)
       ELSE scan(d, path, writing, items, i + 1)

_lookup(d, path0, writing, ord) ==
  LET path == lstrip(path0, pathsep[d])
  IN IF Len(path) = 0
     THEN IF writing /\ ~writable[d] THEN RetFalse ELSE RetObj(d)
     ELSE scan(d, path, writing, Items(d, ord), 1)

\* while root.parent is not root: root = root.parent
\* NoObj when the walk revisits a directory without meeting a root
RECURSIVE ascend(_, _)
ascend(root, seen) ==
  IF parent[root] = root THEN root
  ELSE IF parent[root] \in seen THEN NoObj
  ELSE ascend(parent[root], seen \cup {parent[root]})

lookup(d, path, writing, ord) ==
  IF Len(path) = 0 THEN RetNone
  ELSE IF path[1] = pathsep[d]
  THEN LET root == ascend(d, {d})
       IN IF root = NoObj THEN Hang
          ELSE _lookup(root, From(path, 1), writing, ord)
  ELSE _lookup(d, path, writing, ord)

\* -------------------------------------------------------------------- init
Init ==
  /\ kind = [o \in Objs |-> "free"]
  /\ files = [o \in Objs |-> <<>>]
  /\ parent = [o \in Objs |-> NoObj]
  /\ writable = [o \in Objs |-> FALSE]
  /\ pathsep = [o \in Objs |-> SEP]
  /\ state = [o \in Objs |-> 0]
  /\ last = Call("idle", NoObj, <<>>, NoObj, FALSE, RetNone)
  /\ before = <<>>
  /\ calls = <<>>
  /\ default_plugins = <<>>

\* ----------------------------------------------------------------- actions
\* SimDirectory(files={}, writable=w, parent=p, pathsep=SEP)
NewDir(w, p) ==
  /\ Idle
  /\ Free \cap DirIds # {}
  /\ LET o == Min(Free \cap DirIds)
         par == IF p = NoObj THEN o ELSE p
     IN /\ kind' = [kind EXCEPT ![o] = "dir"]
        /\ state' = [state EXCEPT ![o] = 0]
        /\ writable' = [writable EXCEPT ![o] = w]
        /\ parent' = [parent EXCEPT ![o] = par]
        /\ pathsep' = [pathsep EXCEPT ![o] = SEP]
        /\ files' = [files EXCEPT ![o] = (DOT :> o) @@ (DOTDOT :> par)]
        /\ last' = Call("SimDirectory", o, <<>>, p, w, RetObj(o))
  /\ UNCHANGED <<before, calls, default_plugins>>

\* SimDirectory() with the default files=None
NewDirNoFiles ==
  /\ Idle
  /\ last' = Call("SimDirectory", NoObj, <<>>, NoObj, TRUE, Raise("TypeError"))
  /\ UNCHANGED <<kind, files, parent, writable, pathsep, state>>
  /\ UNCHANGED <<before, calls, default_plugins>>

\* a SimFile, given the least identity of ids that is not in use
NewFileIn(ids, w) ==
  /\ Idle
  /\ Free \cap ids # {}
  /\ LET o == Min(Free \cap ids)
     IN /\ kind' = [kind EXCEPT ![o] = "file"]
        /\ state' = [state EXCEPT ![o] = 0]
        /\ writable' = [writable EXCEPT ![o] = w]
        /\ last' = Call("SimFile", o, <<>>, NoObj, w, RetObj(o))
  /\ UNCHANGED <<files, parent, pathsep>>
  /\ UNCHANGED <<before, calls, default_plugins>>

NewFile(w) == NewFileIn(FileIds, w)

Lookup(d, path, writing, ord) ==
  /\ Idle
  /\ last' = Call("lookup", d, path, NoObj, writing, lookup(d, path, writing, ord))
  /\ UNCHANGED <<kind, files, parent, writable, pathsep, state>>
  /\ UNCHANGED <<before, calls, default_plugins>>

\* the heap after a call, with what the call returned
Outcome(ret, f, p, ps, st) ==
  [ret |-> ret, files |-> f, parent |-> p, pathsep |-> ps, state |-> st]

Unchanged(ret) == Outcome(ret, files, parent, pathsep, state)

\* insert_name without the test for a name already present
insert_name_overwrite(self, path, simfile) ==
  LET adopt == kind[simfile] = "dir" /\ parent[simfile] = simfile
      parent1 == IF adopt THEN [parent EXCEPT ![simfile] = self] ELSE parent
      pathsep1 == IF adopt THEN [pathsep EXCEPT ![simfile] = pathsep[self]]
                  ELSE pathsep
      files1 == [files EXCEPT ![self] = (path :> simfile) @@ files[self]]
      state1 == [state EXCEPT ![simfile] = state[self]]
  IN Outcome(RetTrue, files1, parent1, pathsep1, state1)

\* SimDirectory.insert with a path that holds no separator
insert_name(self, path, simfile) ==
  IF path \in DOMAIN files[self] THEN Unchanged(RetFalse)
  ELSE
    LET adopt == kind[simfile] = "dir" /\ parent[simfile] = simfile
        parent1 == IF adopt THEN [parent EXCEPT ![simfile] = self] ELSE parent
        pathsep1 == IF adopt THEN [pathsep EXCEPT ![simfile] = pathsep[self]]
                    ELSE pathsep
        files1 == [files EXCEPT ![self] = (path :> simfile) @@ files[self]]
        \* simfile.set_state(self.state)
        state1 == [state EXCEPT ![simfile] = state[self]]
    IN Outcome(RetTrue, files1, parent1, pathsep1, state1)

insert(self, path0, simfile, ord) ==
  LET path == rstrip(path0, pathsep[self])
  IN IF ~HasSep(path, pathsep[self]) THEN insert_name(self, path, simfile)
     ELSE
       LET lastsep == LastSep(path, pathsep[self])
           head == SubSeq(path, 1, lastsep)
           tail == From(path, lastsep)
           par == lookup(self, head, TRUE, ord)
       IN IF par.kind \in {"None", "False"} THEN Unchanged(RetFalse)
          ELSE IF par.kind # "obj" THEN Unchanged(par)
          \* head ends with a separator, so par is a directory and tail
          \* holds no separator
          ELSE insert_name(par.val, tail, simfile)

\* remove_name without the test for a directory that still has children
remove_name_nonempty(self, path) ==
  IF path \in {DOT, DOTDOT} THEN Unchanged(RetFalse)
  ELSE IF path \notin DOMAIN files[self] THEN Unchanged(RetFalse)
  ELSE
    LET keep == DOMAIN files[self] \ {path}
        files1 == [files EXCEPT ![self] = [n \in keep |-> files[self][n]]]
    IN Outcome(RetTrue, files1, parent, pathsep, state)

\* SimDirectory.remove with a path that holds no separator
remove_name(self, path) ==
  IF path \in {DOT, DOTDOT} THEN Unchanged(RetFalse)
  ELSE IF path \notin DOMAIN files[self] THEN Unchanged(RetFalse)
  ELSE IF /\ kind[files[self][path]] = "dir"
          /\ Cardinality(DOMAIN files[files[self][path]]) # 2
  THEN Unchanged(RetFalse)
  ELSE
    LET keep == DOMAIN files[self] \ {path}
        files1 == [files EXCEPT ![self] = [n \in keep |-> files[self][n]]]
    IN Outcome(RetTrue, files1, parent, pathsep, state)

\* remove without path.rstrip(self.pathsep)
remove_unstripped(self, path, ord) ==
  IF ~HasSep(path, pathsep[self]) THEN remove_name(self, path)
  ELSE
    LET lastsep == LastSep(path, pathsep[self])
        head == SubSeq(path, 1, lastsep)
        tail == From(path, lastsep)
        par == lookup(self, head, TRUE, ord)
    IN IF par.kind \in {"None", "False"} THEN Unchanged(RetFalse)
       ELSE IF par.kind # "obj" THEN Unchanged(par)
       ELSE remove_name(par.val, tail)

remove(self, path0, ord) ==
  LET path == rstrip(path0, pathsep[self])
  IN IF ~HasSep(path, pathsep[self]) THEN remove_name(self, path)
     ELSE
       LET lastsep == LastSep(path, pathsep[self])
           head == SubSeq(path, 1, lastsep)
           tail == From(path, lastsep)
           par == lookup(self, head, TRUE, ord)
       IN IF par.kind \in {"None", "False"} THEN Unchanged(RetFalse)
          ELSE IF par.kind # "obj" THEN Unchanged(par)
          ELSE remove_name(par.val, tail)

Apply(r) ==
  /\ files' = r.files
  /\ parent' = r.parent
  /\ pathsep' = r.pathsep
  /\ state' = r.state
  /\ UNCHANGED <<kind, writable>>

Insert(d, path, simfile, ord) ==
  LET r == insert(d, path, simfile, ord)
  IN /\ Idle
     /\ r.ret = RetTrue => CountEntries(Dirs) < MaxEntries
     /\ last' = Call("insert", d, path, simfile, TRUE, r.ret)
     /\ Apply(r)
     /\ before' = files
     /\ UNCHANGED <<calls, default_plugins>>

Remove(d, path, ord) ==
  LET r == remove(d, path, ord)
  IN /\ Idle
     /\ last' = Call("remove", d, path, NoObj, TRUE, r.ret)
     /\ Apply(r)
     /\ UNCHANGED <<before, calls, default_plugins>>

\* d.remove(path) by the caller whose d.insert(path, simfile) has just
\* returned True
RemoveInserted(ord) ==
  /\ last.op = "insert"
  /\ last.ret = RetTrue
  /\ LET r == remove(last.self, last.path, ord)
     IN /\ last' = Call("insert;remove", last.self, last.path, last.entry,
                        TRUE, r.ret)
        /\ Apply(r)
  /\ UNCHANGED <<before, calls, default_plugins>>

\* SimStatePlugin.set_state, as the state container calls it on its
\* filesystem root
SetState(o, s) ==
  /\ Idle
  /\ parent[o] = o
  /\ state[o] # s
  /\ state' = [state EXCEPT ![o] = s]
  /\ last' = Call("set_state", o, <<>>, s, FALSE, RetNone)
  /\ UNCHANGED <<kind, files, parent, writable, pathsep>>
  /\ UNCHANGED <<before, calls, default_plugins>>

\* ---------------------------------------------------------------- copy
\* The heap as a copy in progress sees it: the memo dict, the objects built
\* so far, the value the innermost finished call returned, and the
\* exception in flight ("" when none; "nomem" when the heap of the model has
\* no identity left for a new object).
CopyStart ==
  [memo |-> <<>>, kind |-> kind, files |-> files, parent |-> parent,
   writable |-> writable, pathsep |-> pathsep, state |-> state,
   ret |-> NoObj, exc |-> ""]

\* SimFile.copy: a new file of equal content, attached to no state
SimFile_copy(o, st) ==
  LET free == {c \in FileIds : st.kind[c] = "free"}
  IN IF free = {} THEN [st EXCEPT !.exc = "nomem"]
     ELSE LET c == Min(free)
          IN [st EXCEPT !.kind[c] = "file", !.writable[c] = writable[o],
                        !.state[c] = 0, !.ret = c]

\* SimDirectory.__init__ as SimDirectory.copy calls it
SimDirectory_init(st, newfiles, w, par, sep) ==
  LET free == {c \in DirIds : st.kind[c] = "free"}
  IN IF free = {} THEN [st EXCEPT !.exc = "nomem"]
     ELSE LET c == Min(free)
          IN [st EXCEPT !.kind[c] = "dir", !.state[c] = 0,
                        !.writable[c] = w, !.parent[c] = par,
                        !.pathsep[c] = sep,
                        !.files[c] = (DOT :> c) @@ (DOTDOT :> par) @@ newfiles,
                        !.ret = c]

RECURSIVE copy(_, _, _, _)
RECURSIVE SimDirectory_copy(_, _, _, _)
RECURSIVE copy_files(_, _, _, _, _, _, _)

\* {x: y.copy(memo) for x, y in self.files.iteritems()}, from the i-th item
copy_files(o, items, i, st, acc, depth, ord) ==
  IF st.exc # "" \/ i > Len(items) THEN [st |-> st, acc |-> acc]
  ELSE LET x == items[i]
           s1 == copy(files[o][x], st, depth + 1, ord)
       IN IF s1.exc # "" THEN [st |-> s1, acc |-> acc]
          ELSE copy_files(o, items, i + 1, s1, (x :> s1.ret) @@ acc, depth, ord)

\* the body of SimDirectory.copy
SimDirectory_copy(o, st, depth, ord) ==
  LET f == copy_files(o, Items(o, ord), 1, st, <<>>, depth, ord)
  IN IF f.st.exc # "" THEN f.st
     ELSE LET p == copy(parent[o], f.st, depth + 1, ord)
          IN IF p.exc # "" THEN p
             ELSE SimDirectory_init(p, f.acc, writable[o], p.ret, pathsep[o])

\* SimStatePlugin.memo: the wrapper `inner` around a copy method
copy(o, st, depth, ord) ==
  IF depth > RecursionLimit THEN [st EXCEPT !.exc = "RuntimeError"]
  ELSE IF o \in DOMAIN st.memo THEN [st EXCEPT !.ret = st.memo[o]]
  ELSE LET c == IF kind[o] = "dir" THEN SimDirectory_copy(o, st, depth, ord)
                ELSE SimFile_copy(o, st)
       IN IF c.exc # "" THEN c
          ELSE [c EXCEPT !.memo = (o :> c.ret) @@ c.memo]

\* d.copy({}): a raised exception leaves the heap as it was (what was built
\* meanwhile is referenced by nothing but the discarded memo)
Copy(d, ord) ==
  LET r == copy(d, CopyStart, 1, ord)
  IN /\ Idle
     /\ r.exc # "nomem"
     /\ IF r.exc = ""
        THEN /\ kind' = r.kind
             /\ files' = r.files
             /\ parent' = r.parent
             /\ writable' = r.writable
             /\ pathsep' = r.pathsep
             /\ state' = r.state
             /\ last' = Call("copy", d, <<>>, NoObj, FALSE, RetObj(r.ret))
        ELSE /\ last' = Call("copy", d, <<>>, NoObj, FALSE, Raise(r.exc))
             /\ UNCHANGED <<kind, files, parent, writable, pathsep, state>>
     /\ UNCHANGED <<before, calls, default_plugins>>

\* SimDirectoryConcrete.__init__: the super() call names the undefined
\* SimConcreteDirectory, before any attribute is set
SimDirectoryConcrete_init == Raise("NameError")

\* SimDirectoryConcrete(host_path)
NewDirConcrete ==
  /\ Idle
  /\ last' = Call("SimDirectoryConcrete", NoObj, <<>>, NoObj, FALSE,
                  SimDirectoryConcrete_init)
  /\ UNCHANGED <<kind, files, parent, writable, pathsep, state>>
  /\ UNCHANGED <<before, calls, default_plugins>>

\* paths looked up from a host-backed directory that stands at host_root
ConcretePaths == { DOTDOT, <<".", ".", "/", "a">> }

\* SimDirectoryConcrete(host_path, parent=p).lookup(path, writing): the
\* constructor has to hand back the directory before lookup can walk
ConcreteLookup(p, path, writing) ==
  /\ Idle
  /\ last' = Call("SimDirectoryConcrete.lookup", p, path, NoObj, writing,
                  SimDirectoryConcrete_init)
  /\ UNCHANGED <<kind, files, parent, writable, pathsep, state>>
  /\ UNCHANGED <<before, calls, default_plugins>>

\* ---------------------------------------------------------- merge and widen
MaxOthers == 2          \* directories or files handed over as `others`

\* the lists `others` can be: up to MaxOthers live objects
OthersLists == UNION {[1..n -> Live] : n \in 0..MaxOthers}

\* the call log and the directories' dicts while a merge or widen runs;
\* exc is the exception on its way up ("" when there is none)
FoldStart == [files |-> files, calls |-> <<>>, exc |-> ""]

\* the loop over `others` with the type of the first element tested only
RECURSIVE fold_others_first(_, _, _, _, _, _, _)
fold_others_first(op, others, conditions, n, i, nf, fs) ==
  IF i > n THEN [exc |-> "", nf |-> nf]
  ELSE
    LET other == others[i]
    IN IF i = 1 /\ kind[other] # "dir" THEN [exc |-> "SimMergeError", nf |-> nf]
       ELSE
         LET names == DOMAIN fs[other] \ {DOT, DOTDOT}
             nf1 == [path \in DOMAIN nf \cup names |->
                      IF path \notin DOMAIN nf
                      THEN [first |-> fs[other][path], rest |-> <<>>,
                            conds |-> <<>>]
                      ELSE IF path \in names
                      THEN [first |-> nf[path].first,
                            rest |-> Append(nf[path].rest, fs[other][path]),
                            conds |-> IF op = "merge"
                                      THEN Append(nf[path].conds, conditions[i])
                                      ELSE <<>>]
                      ELSE nf[path]]
         IN fold_others_first(op, others, conditions, n, i + 1, nf1, fs)

\* the loop over `others`: nf is new_files, n the number of elements the
\* loop gets to see
RECURSIVE fold_others(_, _, _, _, _, _, _)
fold_others(op, others, conditions, n, i, nf, fs) ==
  IF i > n THEN [exc |-> "", nf |-> nf]
  ELSE
    LET other == others[i]
    IN \* type(other) is not type(self)
       IF kind[other] # "dir" THEN [exc |-> "SimMergeError", nf |-> nf]
       ELSE
         LET names == DOMAIN fs[other] \ {DOT, DOTDOT}
             nf1 == [path \in DOMAIN nf \cup names |->
                      IF path \notin DOMAIN nf
                      THEN [first |-> fs[other][path], rest |-> <<>>,
                            conds |-> <<>>]
                      ELSE IF path \in names
                      THEN [first |-> nf[path].first,
                            rest |-> Append(nf[path].rest, fs[other][path]),
                            conds |-> IF op = "merge"
                                      THEN Append(nf[path].conds, conditions[i])
                                      ELSE <<>>]
                      ELSE nf[path]]
         IN fold_others(op, others, conditions, n, i + 1, nf1, fs)

\* File.merge and File.widen: fail when handed something that is no file
SimFile_fold(simfile, rest, st) ==
  IF \E j \in 1..Len(rest) : kind[rest[j]] # "file"
  THEN [st EXCEPT !.exc = "SimMergeError"]
  ELSE st

RECURSIVE fold(_, _, _, _, _, _, _)
RECURSIVE fold_entries(_, _, _, _, _, _, _, _)

\* the loop `for k in new_files`, in the order keys hands the names out
fold_entries(op, self, nf, keys, i, st, depth, ord) ==
  IF i > Len(keys) \/ st.exc # "" THEN st
  ELSE
    LET k == keys[i]
        simfile == nf[k].first
        st1 == [st EXCEPT !.calls = Append(@,
                  [op |-> op, dir |-> self, name |-> k, on |-> simfile,
                   others |-> nf[k].rest, conditions |-> nf[k].conds,
                   depth |-> depth])]
        st2 == IF kind[simfile] = "dir"
               THEN fold(op, simfile, nf[k].rest, nf[k].conds, st1,
                         depth + 1, ord)
               ELSE SimFile_fold(simfile, nf[k].rest, st1)
    IN fold_entries(op, self, nf, keys, i + 1, st2, depth, ord)

\* the body SimDirectory.merge and SimDirectory.widen share
fold(op, self, others, conditions, st, depth, ord) ==
  IF depth > RecursionLimit THEN [st EXCEPT !.exc = "RuntimeError"]
  ELSE
    LET own == DOMAIN st.files[self] \ {DOT, DOTDOT}
        nf0 == [path \in own |->
                 [first |-> st.files[self][path], rest |-> <<>>, conds |-> <<>>]]
        \* zip(others, conditions) stops with the shorter list
        n == IF op = "merge" THEN Min({Len(others), Len(conditions)})
             ELSE Len(others)
        g == fold_others(op, others, conditions, n, 1, nf0, st.files)
    IN IF g.exc # "" THEN [st EXCEPT !.exc = g.exc]
       ELSE
         LET keys == SelectSeq(ord, LAMBDA k : k \in DOMAIN g.nf)
             r == fold_entries(op, self, g.nf, keys, 1, st, depth, ord)
             new_files == [k \in DOMAIN g.nf \cup {DOT, DOTDOT} |->
                            IF k = DOT THEN self
                            ELSE IF k = DOTDOT THEN parent[self]
                            ELSE g.nf[k].first]
         IN IF r.exc # "" THEN r
            ELSE [r EXCEPT !.files[self] = new_files]

\* merge that looks at the names of self only
merge_own_names(self, others, conditions, ord) ==
  fold("merge", self, <<>>, <<>>, FoldStart, 0, ord)

\* SimDirectory.merge(others, conditions, ancestor)
merge(self, others, conditions, ord) ==
  fold("merge", self, others, conditions, FoldStart, 0, ord)

\* widen that hands each entry the first of the others only
widen_first_other(self, others, ord) ==
  fold("widen", self, SubSeq(others, 1, Min({1, Len(others)})), <<>>,
       FoldStart, 0, ord)

\* SimDirectory.widen(others)
widen(self, others, ord) ==
  fold("widen", self, others, <<>>, FoldStart, 0, ord)

\* a function without return statement hands back None
FoldResult(r) == IF r.exc = "" THEN RetNone ELSE Raise(r.exc)

\* d.merge(others, conditions): conditions[i] goes with others[i]
Merge(d, others, ord) ==
  /\ Idle
  /\ LET r == merge(d, others, [i \in 1..Len(others) |-> i], ord)
     IN /\ last' = Call("merge", d, <<>>, others, FALSE, FoldResult(r))
        /\ files' = r.files
        /\ calls' = r.calls
  /\ UNCHANGED <<kind, parent, writable, pathsep, state, before, default_plugins>>

Widen(d, others, ord) ==
  /\ Idle
  /\ LET r == widen(d, others, ord)
     IN /\ last' = Call("widen", d, <<>>, others, FALSE, FoldResult(r))
        /\ files' = r.files
        /\ calls' = r.calls
  /\ UNCHANGED <<kind, parent, writable, pathsep, state, before, default_plugins>>

\* --------------------------------------------------------- default plugins
PluginNames == {"fs", "posix", "memory"}
PluginClasses == {"SimDirectory", "SimDirectoryConcrete", "SimFile"}

\* default_plugins[name] = cls without the test for a name already set
register_default_overwrite(name, cls) ==
  [ret |-> RetNone,
   plugins |-> [n \in DOMAIN default_plugins \cup {name} |->
                  IF n = name THEN cls ELSE default_plugins[n]]]

register_default(name, cls) ==
  IF name \in DOMAIN default_plugins
  THEN [ret |-> Raise("Exception"), plugins |-> default_plugins]
  ELSE [ret |-> RetNone,
        plugins |-> [n \in DOMAIN default_plugins \cup {name} |->
                       IF n = name THEN cls ELSE default_plugins[n]]]

\* SimStatePlugin.register_default(name, cls)
RegisterDefault(name, cls) ==
  /\ Idle
  /\ LET r == register_default(name, cls)
     IN /\ default_plugins' = r.plugins
        /\ last' = Call("register_default", NoObj, name, cls, FALSE, r.ret)
  /\ UNCHANGED <<kind, files, parent, writable, pathsep, state>>
  /\ UNCHANGED <<before, calls>>

\* the caller takes the result; the next call can be made
Return ==
  /\ ~Idle
  /\ last' = Call("idle", NoObj, <<>>, NoObj, FALSE, RetNone)
  /\ before' = <<>>
  /\ calls' = <<>>
  /\ UNCHANGED <<kind, files, parent, writable, pathsep, state>>
  /\ UNCHANGED default_plugins

Next ==
  \/ \E w \in BOOLEAN : NewDir(w, NoObj)
  \/ NewDirNoFiles
  \/ \E w \in BOOLEAN : NewFile(w)
  \/ \E d \in Dirs, path \in LookupPaths, writing \in BOOLEAN, ord \in Orders :
       Lookup(d, path, writing, ord)
  \/ \E d \in Dirs, path \in UpdatePaths, simfile \in Live, ord \in Orders :
       Insert(d, path, simfile, ord)
  \/ \E d \in Dirs, path \in UpdatePaths, ord \in Orders : Remove(d, path, ord)
  \/ \E o \in Dirs, s \in States : SetState(o, s)
  \/ \E d \in Dirs, ord \in Orders : Copy(d, ord)
  \/ NewDirConcrete
  \/ \E p \in Dirs, path \in ConcretePaths, writing \in BOOLEAN :
       ConcreteLookup(p, path, writing)
  \/ Return

Spec == Init /\ [][Next]_vars

\* building trees and taking back what was just put in
NextRoundTrip ==
  \/ \E w \in BOOLEAN : NewDir(w, NoObj)
  \/ \E w \in BOOLEAN : NewFile(w)
  \/ \E d \in Dirs, path \in UpdatePaths, simfile \in Live, ord \in Orders :
       Insert(d, path, simfile, ord)
  \/ \E ord \in Orders : RemoveInserted(ord)
  \/ Return

SpecRoundTrip == Init /\ [][NextRoundTrip]_vars

\* building the trees of branches and folding those of other branches
\* into one
NextBranch ==
  \/ \E w \in BOOLEAN : NewDir(w, NoObj)
  \/ \E w \in BOOLEAN : NewFileIn(BranchFileIds, w)
  \/ \E d \in Dirs, path \in {NameA, NameB}, simfile \in Live, ord \in Orders :
       Insert(d, path, simfile, ord)
  \/ \E d \in Dirs, others \in OthersLists, ord \in Orders : Merge(d, others, ord)
  \/ \E d \in Dirs, others \in OthersLists, ord \in Orders : Widen(d, others, ord)
  \/ Return

SpecBranch == Init /\ [][NextBranch]_vars

\* the registry of default plugins on its own
NextRegistry ==
  \/ \E name \in PluginNames, cls \in PluginClasses : RegisterDefault(name, cls)
  \/ Return

SpecRegistry == Init /\ [][NextRegistry]_vars

\* ------------------------------------------------------------- properties
\* what the properties speak of: a path followed segment by segment
RECURSIVE Segments(_)
Segments(path) ==
  IF Len(path) = 0 THEN <<>>
  ELSE IF path[1] = SEP THEN Segments(Tail(path))
  ELSE LET stop == IF HasSep(path, SEP)
                   THEN (CHOOSE i \in 1..Len(path) :
                           path[i] = SEP /\ \A j \in 1..(i - 1) : path[j] # SEP) - 1
                   ELSE Len(path)
       IN <<SubSeq(path, 1, stop)>> \o Segments(From(path, stop))

\* the entry reached from d through the children named by segs, NoObj if
\* there is none
RECURSIVE Walk(_, _)
Walk(d, segs) ==
  IF Len(segs) = 0 THEN d
  ELSE IF kind[d] # "dir" \/ Head(segs) \notin DOMAIN files[d] THEN NoObj
  ELSE Walk(files[d][Head(segs)], Tail(segs))

\* the objects reachable from the objects of S through children
RECURSIVE Reach(_)
Reach(S) ==
  LET next == S \cup UNION {{files[d][n] : n \in DOMAIN files[d]} : d \in S \cap Dirs}
  IN IF next = S THEN S ELSE Reach(next)

\* the entries met from d along segs are objects other than d and each other
Proper(d, segs) ==
  /\ \A k \in 1..Len(segs) : Walk(d, SubSeq(segs, 1, k)) \notin {NoObj, d}
  /\ \A j, k \in 1..Len(segs) :
       j # k => Walk(d, SubSeq(segs, 1, j)) # Walk(d, SubSeq(segs, 1, k))

PathAB == <<"a", "/", "b">>
PathSlashAB == <<"/", "a", "/", "b">>

\* C1: every directory's '.' entry is the directory itself and its '..'
\* entry is its parent, in every reachable state
DotAndDotDotLinks ==
  \A d \in Dirs : files[d][DOT] = d /\ files[d][DOTDOT] = parent[d]

\* C2: copy with a fresh memo on a root directory (its parent and its '.'
\* are itself) terminates and returns a copy
CloneOfRootReturnsCopy ==
  (/\ last.op = "copy"
   /\ parent[last.self] = last.self
   /\ files[last.self][DOT] = last.self)
  => (last.ret.kind = "obj" /\ kind[last.ret.val] = "dir")

\* C3: copy returns an instance other than the directory copied, holding
\* the same names with entries of equal content, and nothing reachable from
\* the copy is reachable from the original
CloneIsStructurePreservingAndAliasFree ==
  last.op = "copy" =>
    /\ last.ret.kind = "obj"
    /\ last.ret.val # last.self
    /\ DOMAIN files[last.ret.val] = DOMAIN files[last.self]
    /\ \A n \in UserNames(last.self) :
         /\ kind[files[last.ret.val][n]] = kind[files[last.self][n]]
         /\ writable[files[last.ret.val][n]] = writable[files[last.self][n]]
    /\ Reach({last.ret.val}) \cap Reach({last.self}) = {}

\* C4: when one directory instance stands under two names of the directory
\* copied, the copy holds one and the same copied instance under both names
CloneKeepsSharing ==
  last.op = "copy" =>
    \A n1, n2 \in UserNames(last.self) :
      (/\ n1 # n2
       /\ files[last.self][n1] = files[last.self][n2]
       /\ files[last.self][n1] # last.self
       /\ kind[files[last.self][n1]] = "dir")
      => /\ last.ret.kind = "obj"
         /\ files[last.ret.val][n1] = files[last.ret.val][n2]
         /\ files[last.ret.val][n1] # files[last.self][n1]

\* C5: insert and remove with a separator-free name on a directory that is
\* not writable return False and leave the children of every directory as
\* they were
ReadOnlyDirectoryRefusesUpdate ==
  [][(/\ last'.op \in {"insert", "remove"}
      /\ ~HasSep(last'.path, SEP)
      /\ ~writable[last'.self])
     => (last'.ret = RetFalse /\ files' = files)]_vars

\* C6: in a tree whose root holds directory 'a' with child 'b', lookup of
\* "/a/b" from any directory of the tree and lookup of "a/b" from the root
\* both return the entry root.files['a'].files['b']
AbsoluteAndRelativeAgree ==
  LET root == ascend(last.self, {last.self})
  IN (/\ last.op = "lookup"
      /\ ~last.writing
      /\ root # NoObj
      /\ Proper(root, <<NameA, NameB>>)
      /\ \/ last.path = PathSlashAB
         \/ last.path = PathAB /\ last.self = root)
     => last.ret = RetObj(Walk(root, <<NameA, NameB>>))

\* C7: lookup returns an entry, not-found (None) or not-writable (False)
\* for every path and writing flag; it never raises
LookupNeverRaises ==
  last.op = "lookup" => last.ret.kind \in {"obj", "None", "False"}

\* C8: lookup with writing=True returns not-writable (False) when the path
\* resolves to an entry and that entry or a directory passed through on the
\* way is not writable, and returns not-found (None) only when the path
\* resolves to no entry
WriteLookupTellsNotWritable ==
  LET start == IF Len(last.path) > 0 /\ last.path[1] = SEP
               THEN ascend(last.self, {last.self}) ELSE last.self
      segs == Segments(last.path)
      e == Walk(start, segs)
      blocked == \/ ~writable[e]
                 \/ \E k \in 1..(Len(segs) - 1) :
                      ~writable[Walk(start, SubSeq(segs, 1, k))]
  IN (/\ last.op = "lookup"
      /\ last.writing
      /\ Len(last.path) > 0
      /\ start # NoObj)
     => /\ (Proper(start, segs) /\ blocked) => last.ret = RetFalse
        /\ last.ret = RetNone => e = NoObj

\* C9: insert under a name the directory already holds returns False,
\* leaves every directory's children as they were and does not re-parent
\* or attach the entry offered
InsertRejectsDuplicate ==
  [][(/\ last'.op = "insert"
      /\ last'.path \in DOMAIN files[last'.self])
     => /\ last'.ret = RetFalse
        /\ files' = files
        /\ parent' = parent
        /\ pathsep' = pathsep
        /\ state' = state]_vars

\* a duplicate insert was refused: 'a' was offered a detached root
\* directory while holding another entry, which it still holds
InsertRejectsDuplicateWitness ==
  /\ last.op = "insert"
  /\ last.path = NameA
  /\ last.ret = RetFalse
  /\ NameA \in DOMAIN files[last.self]
  /\ files[last.self][NameA] # last.entry
  /\ kind[last.entry] = "dir"
  /\ parent[last.entry] = last.entry

\* C10: remove with a separator-free name returns False and changes no
\* directory when the name is '.' or '..', is absent, or names a directory
\* holding a child beyond '.' and '..'; otherwise it returns True and that
\* one name is gone from the directory, nothing else changed
RemoveContract ==
  [][(last'.op = "remove" /\ ~HasSep(last'.path, SEP))
     => LET d == last'.self
            n == last'.path
            refused == \/ n \in {DOT, DOTDOT}
                       \/ n \notin DOMAIN files[d]
                       \/ /\ kind[files[d][n]] = "dir"
                          /\ UserNames(files[d][n]) # {}
        IN IF refused
           THEN last'.ret = RetFalse /\ files' = files
           ELSE /\ last'.ret = RetTrue
                /\ DOMAIN files'[d] = DOMAIN files[d] \ {n}
                /\ \A m \in DOMAIN files'[d] : files'[d][m] = files[d][m]
                /\ \A o \in Objs \ {d} : files'[o] = files[o]]_vars

\* remove was refused for a directory that still holds a child
RemoveContractWitness ==
  /\ last.op = "remove"
  /\ last.ret = RetFalse
  /\ last.path \in UserNames(last.self)
  /\ files[last.self][last.path] # last.self
  /\ kind[files[last.self][last.path]] = "dir"
  /\ UserNames(files[last.self][last.path]) # {}

\* C19: a lookup of a non-empty path without separator answers with the
\* child stored under exactly that name (not-writable when writing is asked
\* of a read-only child), and with not-found when no child has that name,
\* whatever the order the names are scanned in; a stored name that is only
\* a prefix of the path ("a" for "ab", "." for "..") is never the match.
SegmentAlignedMatch ==
  (last.op = "lookup" /\ Len(last.path) > 0 /\ ~HasSep(last.path, SEP)) =>
    IF last.path \in DOMAIN files[last.self]
    THEN LET child == files[last.self][last.path]
         IN IF last.writing /\ ~writable[child]
            THEN last.ret = RetFalse
            ELSE last.ret = RetObj(child)
    ELSE last.ret = RetNone

\* "ab" was looked up in a directory that holds "a" but no "ab"
SegmentAlignedMatchWitness ==
  /\ last.op = "lookup"
  /\ last.path = <<"a", "b">>
  /\ NameA \in DOMAIN files[last.self]
  /\ last.ret = RetNone

\* C20: from every directory the parent links lead to a directory that is
\* its own parent, so the root ascent of lookup comes to an end.
ParentChainReachesRoot ==
  \A d \in Dirs : ascend(d, {d}) # NoObj

\* C16: the registry keeps one constructor per name; registering a name
\* that is already registered raises and leaves the table as it was, and
\* no step ever changes or drops what a name was first registered to.
RegistryKeepsFirst ==
  [][ /\ (last'.op = "register_default" /\ last'.path \in DOMAIN default_plugins)
         => (last'.ret = Raise("Exception") /\ default_plugins' = default_plugins)
      /\ (last'.op = "register_default" /\ last'.path \notin DOMAIN default_plugins)
         => (last'.ret = RetNone /\ default_plugins'[last'.path] = last'.entry)
      /\ \A n \in DOMAIN default_plugins :
           n \in DOMAIN default_plugins' /\ default_plugins'[n] = default_plugins[n]
    ]_vars

\* a second constructor was offered for a registered name and refused
RegistryKeepsFirstWitness ==
  /\ last.op = "register_default"
  /\ last.ret = Raise("Exception")
  /\ last.path \in DOMAIN default_plugins
  /\ default_plugins[last.path] # last.entry

\* C11: insert(p, f) of an absent path followed by remove(p) leaves the
\* child set of the directory as it was before the insert, whatever entry f
\* is.
InsertRemoveRestores ==
  last.op = "insert;remove" => files[last.self] = before[last.self]

\* C11 (amended): when f is a file, or a directory that holds no child once
\* it is inserted, remove(p) after the insert returns True and every
\* directory has the children it had before the insert.
InsertRemoveRestoresChildless ==
  ( /\ last.op = "insert;remove"
    /\ \/ kind[last.entry] = "file"
       \/ DOMAIN files[last.entry] = {DOT, DOTDOT} )
  => (last.ret = RetTrue /\ files = before)

\* an empty directory went into another directory and came out again
InsertRemoveRestoresWitness ==
  /\ last.op = "insert;remove"
  /\ kind[last.entry] = "dir"
  /\ last.entry # last.self
  /\ last.ret = RetTrue
  /\ last.path \notin DOMAIN files[last.self]
  /\ files = before

\* the entries below d through names other than "." and ".." in the dicts fs
RECURSIVE Below(_, _)
Below(fs, S) ==
  LET next == S \cup UNION {{fs[d][n] : n \in DOMAIN fs[d] \ {DOT, DOTDOT}} :
                            d \in S \cap Dirs}
  IN IF next = S THEN S ELSE Below(fs, next)

Entries(fs, d) == Below(fs, {fs[d][n] : n \in DOMAIN fs[d] \ {DOT, DOTDOT}})

\* the names the directories of the list hold, "." and ".." left out
NamesOf(fs, others) ==
  UNION {DOMAIN fs[others[i]] \ {DOT, DOTDOT} : i \in 1..Len(others)}

\* the entries the directories of the list hold under name k, in list order
RECURSIVE Under(_, _, _, _)
Under(fs, others, k, i) ==
  IF i > Len(others) THEN <<>>
  ELSE IF k \in DOMAIN fs[others[i]]
  THEN <<fs[others[i]][k]>> \o Under(fs, others, k, i + 1)
  ELSE Under(fs, others, k, i + 1)

\* C12: after a merge that returns, the names of self (beyond "." and "..")
\* are those self had together with those of every other; a name self had
\* maps to the entry instance it mapped to before; a name only others had
\* is present, mapped to the entry of the first other that has it.
MergeTakesUnionOfNames ==
  [][ (last'.op = "merge" /\ last'.ret = RetNone) =>
        LET self == last'.self
            others == last'.entry
        IN /\ DOMAIN files'[self] \ {DOT, DOTDOT} =
                UserNames(self) \cup NamesOf(files, others)
           /\ \A k \in UserNames(self) : files'[self][k] = files[self][k]
           /\ \A k \in NamesOf(files, others) \ UserNames(self) :
                files'[self][k] = Under(files, others, k, 1)[1]
    ]_vars

\* self kept a name of its own and took one that only another directory had
MergeTakesUnionOfNamesWitness ==
  /\ last.op = "merge"
  /\ last.ret = RetNone
  /\ \E i \in 1..Len(last.entry), j \in 1..Len(calls) :
       LET other == last.entry[i]
           c == calls[j]
       IN /\ other # last.self
          /\ c.dir = last.self /\ c.depth = 0 /\ c.others = <<>>
          /\ c.name \in UserNames(other)
          /\ files[last.self][c.name] = files[other][c.name]
          /\ \E m \in UserNames(last.self) : m \notin UserNames(other)

\* C13: a merge that returns hands back a boolean.
MergeReturnsBoolean ==
  (last.op = "merge" /\ last.ret.kind \in {"None", "True", "False", "obj"})
    => last.ret \in {RetTrue, RetFalse}

\* C14: merge and widen raise the merge-type error, and leave every dict
\* alone, whenever some element of others, at whatever place in the list,
\* is not a directory of the variant of self.
FoldRejectsOtherTypes ==
  [][ ( /\ last'.op \in {"merge", "widen"}
        /\ \E i \in 1..Len(last'.entry) : kind[last'.entry[i]] # "dir" )
      => (last'.ret = Raise("SimMergeError") /\ files' = files)
    ]_vars

\* a directory came first in others and a file second
FoldRejectsOtherTypesWitness ==
  /\ last.op \in {"merge", "widen"}
  /\ Len(last.entry) = 2
  /\ kind[last.entry[1]] = "dir"
  /\ kind[last.entry[2]] = "file"
  /\ last.ret = Raise("SimMergeError")

\* the calls the last merge or widen made itself on the entry under name k
CallsFor(k) ==
  SelectSeq(calls, LAMBDA c : c.depth = 0 /\ c.name = k)

\* C15: after a widen that returns, the names of self are the union of the
\* names of self and the others, and for each name widen was called once on
\* the primary entry (that of self if self had the name, else that of the
\* first other that has it) with the list of the remaining entries under
\* that name in the other directories, in their order.
WidenCallsPrimaryOnce ==
  [][ (last'.op = "widen" /\ last'.ret = RetNone) =>
        LET self == last'.self
            others == last'.entry
            all == UserNames(self) \cup NamesOf(files, others)
        IN /\ DOMAIN files'[self] \ {DOT, DOTDOT} = all
           /\ \A k \in all :
                LET under == Under(files, <<self>> \o others, k, 1)
                    made == CallsFor(k)'
                IN /\ Len(made) = 1
                   /\ made[1].op = "widen"
                   /\ made[1].dir = self
                   /\ made[1].on = under[1]
                   /\ made[1].others = SubSeq(under, 2, Len(under))
                   /\ files'[self][k] = under[1]
    ]_vars

\* two others were handed over and some entry was widened with a list of
\* two different entries
WidenCallsPrimaryOnceWitness ==
  /\ last.op = "widen"
  /\ last.ret = RetNone
  /\ Len(last.entry) = 2
  /\ \E j \in 1..Len(calls) :
       /\ calls[j].depth = 0
       /\ Len(calls[j].others) = 2
       /\ calls[j].others[1] # calls[j].others[2]
       /\ calls[j].on = files[last.self][calls[j].name]

\* C18: when self and the others are separate trees that share no entry
\* before a merge or widen, self shares no entry with them after it.
FoldSharesNoEntry ==
  [][ ( /\ last'.op \in {"merge", "widen"}
        /\ last'.ret = RetNone
        /\ \A i \in 1..Len(last'.entry) :
             /\ last'.entry[i] # last'.self
             /\ last'.self \notin Entries(files, last'.entry[i])
             /\ last'.entry[i] \notin Entries(files, last'.self)
             /\ Entries(files, last'.self) \cap Entries(files, last'.entry[i]) = {} )
      => \A i \in 1..Len(last'.entry) :
           Entries(files', last'.self) \cap Entries(files', last'.entry[i]) = {}
    ]_vars

\* C17: a lookup that starts with ".." from a host-backed directory standing
\* at its host_root answers with what the resolver of the owning parent
\* answers for the rest of the path, asked with the same writing flag.
HostRootDotDotGoesToParent ==
  last.op = "SimDirectoryConcrete.lookup" =>
    \E ord \in Orders :
      last.ret = _lookup(last.self, From(last.path, 3), last.writing, ord)

====
